---- MODULE Spec2Model ----
(***************************************************************************)
(* Model of nu_plugin_from_hdf5: the type-driven decoder (to_value), the   *)
(* dataset and group walkers (to_list, to_record), the entry point         *)
(* (from_hdf5_bytes) and the two command surfaces (run of from_hdf5.rs and *)
(* FromHdf5::run of main.rs).                                              *)
(*                                                                         *)
(* Conventions.                                                            *)
(*  - A byte is a number in 0..255; a slice is a sequence of bytes.        *)
(*  - The target is little-endian and 64-bit: the last byte of a scalar's  *)
(*    window is its most significant one, usize and pointers are 8 bytes.  *)
(*  - A 64-bit integer of the output tree (Value::Int) is kept as its      *)
(*    8-byte two's complement pattern, so that no width is lost.           *)
(*  - A string (a name, a text value) is a sequence: of one-character      *)
(*    strings for names, of bytes for decoded text.                        *)
(*  - A call ends in one of three ways: Ok(v), Err(e) (a Result::Err       *)
(*    returned to the caller) or Panic(m) (the thread unwinds: assert_eq!, *)
(*    unwrap, unreachable!, an out-of-range index).                        *)
(***************************************************************************)
EXTENDS Integers, Sequences, FiniteSets, TLC

VARIABLES call, dtype, slice, heap, count, input, out, called

vars == <<call, dtype, slice, heap, count, input, out, called>>

(***************************************************************************)
(* Bounds of the model.                                                    *)
(***************************************************************************)
\* slices up to this length are drawn in full, longer ones by pattern
MaxFull == 4
\* longest fixed string, fixed array
MaxStrLen == 2
MaxArrayLen == 2
\* most elements a variable-length run or a dataset holds
MaxRun == 2
MaxCount == 2

\* the byte values slices are drawn from
Bytes == {0, 1, 255}

(***************************************************************************)
(* Outcomes of a call.                                                     *)
(***************************************************************************)
Ok(v) == [kind |-> "Ok", val |-> v]
Err(e) == [kind |-> "Err", val |-> e]
Panic(m) == [kind |-> "Panic", val |-> m]

(***************************************************************************)
(* hdf5::types::TypeDescriptor and its size().                             *)
(***************************************************************************)
IntSizes == {1, 2, 4, 8}
FloatSizes == {4, 8}

Integer(w) == [tag |-> "Integer", size |-> w]
Unsigned(w) == [tag |-> "Unsigned", size |-> w]
Float(w) == [tag |-> "Float", size |-> w]
Boolean == [tag |-> "Boolean"]
Enum(w, s) == [tag |-> "Enum", size |-> w, signed |-> s]
Compound(sz, fs) == [tag |-> "Compound", size |-> sz, fields |-> fs]
Field(n, off, ty) == [name |-> n, offset |-> off, ty |-> ty]
FixedArray(ty, len) == [tag |-> "FixedArray", ty |-> ty, len |-> len]
FixedAscii(len) == [tag |-> "FixedAscii", len |-> len]
FixedUnicode(len) == [tag |-> "FixedUnicode", len |-> len]
VarLenArray(ty) == [tag |-> "VarLenArray", ty |-> ty]
VarLenAscii == [tag |-> "VarLenAscii"]
VarLenUnicode == [tag |-> "VarLenUnicode"]

\* size_of::<hvl_t>(): a usize length and a pointer
HvlSize == 16
\* size_of::<*const c_char>()
PtrSize == 8

RECURSIVE Size(_)
Size(ty) ==
  CASE ty.tag \in {"Integer", "Unsigned", "Float", "Enum", "Compound"} -> ty.size
    [] ty.tag = "Boolean" -> 1
    [] ty.tag = "FixedArray" -> Size(ty.ty) * ty.len
    [] ty.tag \in {"FixedAscii", "FixedUnicode"} -> ty.len
    [] ty.tag = "VarLenArray" -> HvlSize
    [] ty.tag \in {"VarLenAscii", "VarLenUnicode"} -> PtrSize

IsFixedSize(ty) == ty.tag \notin {"VarLenArray", "VarLenAscii", "VarLenUnicode"}

(***************************************************************************)
(* Slices.                                                                 *)
(***************************************************************************)
Repeat(b, n) == [i \in 1..n |-> b]

Take(s, n) == SubSeq(s, 1, IF n < Len(s) THEN n ELSE Len(s))

Drop(s, n) == SubSeq(s, n + 1, Len(s))

\* slice::chunks(k) for k > 0: consecutive windows of k bytes, the last one
\* shorter when k does not divide the length
RECURSIVE chunks(_, _)
chunks(s, k) ==
  IF Len(s) = 0 THEN <<>> ELSE <<Take(s, k)>> \o chunks(Drop(s, k), k)

\* the number a little-endian window holds (usize fields of an hvl_t)
RECURSIVE LeValue(_)
LeValue(s) == IF Len(s) = 0 THEN 0 ELSE Head(s) + 256 * LeValue(Tail(s))

(***************************************************************************)
(* nu_protocol::Value, as far as the decoder builds it.                    *)
(***************************************************************************)
IntV(p) == [tag |-> "Int", val |-> p]
FloatV(from, bits) == [tag |-> "Float", val |-> [from |-> from, bits |-> bits]]
BoolV(b) == [tag |-> "Bool", val |-> b]
StringV(text) == [tag |-> "String", val |-> text]
ListV(vs) == [tag |-> "List", vals |-> vs]
RecordV(cs, vs) == [tag |-> "Record", cols |-> cs, vals |-> vs]

\* Record::from_raw_cols_vals: refuses columns and values of different
\* lengths and checks nothing else (equal keys are kept as they come)
from_raw_cols_vals(cs, vs) ==
  IF Len(cs) = Len(vs) THEN Ok(RecordV(cs, vs)) ELSE Err("RecordColsValsMismatch")

\* Result::unwrap
unwrap(r) == IF r.kind = "Err" THEN Panic("called unwrap on an Err value") ELSE r

(***************************************************************************)
(* The native scalar types of native_value! and the casts that as _ makes to  *)
(* the payload of the Value variant (i64, f64, bool).                      *)
(***************************************************************************)
SizeOf(native_ty) ==
  CASE native_ty \in {"i8", "u8", "bool"} -> 1
    [] native_ty \in {"i16", "u16"} -> 2
    [] native_ty \in {"i32", "u32", "f32"} -> 4
    [] native_ty \in {"i64", "u64", "f64"} -> 8

IsSigned(native_ty) == native_ty \in {"i8", "i16", "i32", "i64"}

\* the top bit of a little-endian window
TopBit(s) == s[Len(s)] >= 128

SignExtend(s) == s \o Repeat(IF TopBit(s) THEN 255 ELSE 0, 8 - Len(s))

ZeroExtend(s) == s \o Repeat(0, 8 - Len(s))

\* $native_ty as i64: sign extension of a signed type, zero extension of an
\* unsigned one narrower than 64 bits, the same 64 bits for u64
AsI64(native_ty, s) == IF IsSigned(native_ty) THEN SignExtend(s) ELSE ZeroExtend(s)

\* read_unaligned::<bool>: 0 and 1 are the valid bit patterns; any other
\* byte is undefined behaviour, and ub is what the build makes of it
ReadBool(s, ub) == IF s[1] = 0 THEN FALSE ELSE IF s[1] = 1 THEN TRUE ELSE ub

native_value(native_ty, s, ub) ==
  IF Len(s) # SizeOf(native_ty)
    THEN Panic("assert_eq: slice.len() == size_of::<native_ty>()")
    ELSE CASE native_ty \in {"f32", "f64"} -> Ok(FloatV(native_ty, s))
           [] native_ty = "bool" -> Ok(BoolV(ReadBool(s, ub)))
           [] OTHER -> Ok(IntV(AsI64(native_ty, s)))

IntType(w) == CASE w = 1 -> "i8" [] w = 2 -> "i16" [] w = 4 -> "i32" [] w = 8 -> "i64"

UnsignedType(w) == CASE w = 1 -> "u8" [] w = 2 -> "u16" [] w = 4 -> "u32" [] w = 8 -> "u64"

FloatType(w) == CASE w = 4 -> "f32" [] w = 8 -> "f64"

(***************************************************************************)
(* Text.                                                                   *)
(***************************************************************************)
\* U+FFFD in UTF-8
Replacement == <<239, 191, 189>>

\* String::from_utf8_lossy on windows whose bytes >= 128 form no valid
\* sequence (true of 0x80..0xC1 and 0xF5..0xFF wherever they stand): every
\* such byte becomes U+FFFD, every ASCII byte stays
RECURSIVE from_utf8_lossy(_)
from_utf8_lossy(s) ==
  IF Len(s) = 0 THEN <<>>
  ELSE (IF Head(s) < 128 THEN <<Head(s)>> ELSE Replacement) \o from_utf8_lossy(Tail(s))

\* the bytes before the first NUL (strlen)
RECURSIVE CStr(_)
CStr(s) == IF Len(s) = 0 \/ Head(s) = 0 THEN <<>> ELSE <<Head(s)>> \o CStr(Tail(s))

(***************************************************************************)
(* Iterator::try_collect over results produced in order: the first one     *)
(* that is not Ok ends the collection and is the outcome.                  *)
(***************************************************************************)
RECURSIVE try_collect(_)
try_collect(rs) ==
  IF Len(rs) = 0 THEN Ok(<<>>)
  ELSE IF Head(rs).kind # "Ok" THEN Head(rs)
  ELSE LET rest == try_collect(Tail(rs))
       IN IF rest.kind # "Ok" THEN rest ELSE Ok(<<Head(rs).val>> \o rest.val)

(***************************************************************************)
(* Indirection records. heap maps an address (1, 2, ...; 0 is null) to the *)
(* bytes the engine stored there.                                          *)
(***************************************************************************)
HvlRecord(len, ptr) == <<len>> \o Repeat(0, 7) \o <<ptr>> \o Repeat(0, 7)

PtrRecord(ptr) == <<ptr>> \o Repeat(0, 7)

\* Deref of VarLenArray<u8>: len bytes at ptr, nothing for an empty or null
\* record. len counts the elements of the run, whatever their width.
hvl_bytes(s, hp) ==
  LET len == LeValue(SubSeq(s, 1, 8))
      ptr == LeValue(SubSeq(s, 9, 16))
  IN IF len = 0 \/ ptr = 0 THEN <<>> ELSE SubSeq(hp[ptr], 1, len)

\* VarLenAscii::as_str, VarLenUnicode::as_str: the C string at the pointer
varlen_str(s, hp) == CStr(hp[LeValue(SubSeq(s, 1, 8))])

(***************************************************************************)
(* to_value: one value out of a byte window and its type descriptor.       *)
(* hp is the engine's heap (what indirection records point into), ub the   *)
(* build's answer to an invalid bool.                                      *)
(***************************************************************************)
RECURSIVE to_value(_, _, _, _)
RECURSIVE compound_fields(_, _, _, _)

\* s.chunks(ty.size()).map(|slice| to_value(slice, ty, span)).try_collect()
decode_chunks(s, ty, hp, ub) ==
  IF Size(ty) = 0 THEN Panic("chunk size must be non-zero")
  ELSE try_collect([i \in 1..Len(chunks(s, Size(ty))) |->
                      to_value(chunks(s, Size(ty))[i], ty, hp, ub)])

\* Value::List { vals: ...try_collect()? }
list_of(r) == IF r.kind # "Ok" THEN r ELSE Ok(ListV(r.val))

\* a field's window taken as &slice[field.offset..field.ty.size()]: the end
\* of the range is not moved by the offset
field_value_end_not_offset(s, f, hp, ub) ==
  IF f.offset > Size(f.ty) \/ Size(f.ty) > Len(s)
    THEN Panic("slice index out of range")
    ELSE to_value(SubSeq(s, f.offset + 1, Size(f.ty)), f.ty, hp, ub)

\* &slice[field.offset..field.offset + field.ty.size()], decoded
field_value(s, f, hp, ub) ==
  IF f.offset + Size(f.ty) > Len(s)
    THEN Panic("range end index out of range for slice")
    ELSE to_value(SubSeq(s, f.offset + 1, f.offset + Size(f.ty)), f.ty, hp, ub)

\* cols.push(name); vals.push(v?): v is the outcome for this child, rest the
\* outcome of the iterations after it
push(name, v, rest) ==
  IF v.kind # "Ok" THEN v
  ELSE IF rest.kind # "Ok" THEN rest
  ELSE Ok([cols |-> <<name>> \o rest.val.cols, vals |-> <<v.val>> \o rest.val.vals])

\* the loop over comp.fields: a column and a value per field, in order
compound_fields(s, fields, hp, ub) ==
  IF Len(fields) = 0 THEN Ok([cols |-> <<>>, vals |-> <<>>])
  ELSE push(Head(fields).name, field_value(s, Head(fields), hp, ub),
            compound_fields(s, Tail(fields), hp, ub))

\* Value::Record { val: Record::from_raw_cols_vals(cols, vals, ..).unwrap() }
record_of(r) ==
  IF r.kind # "Ok" THEN r ELSE unwrap(from_raw_cols_vals(r.val.cols, r.val.vals))

to_value(s, ty, hp, ub) ==
  CASE ty.tag = "Integer" -> native_value(IntType(ty.size), s, ub)
    [] ty.tag = "Unsigned" -> native_value(UnsignedType(ty.size), s, ub)
    [] ty.tag = "Float" -> native_value(FloatType(ty.size), s, ub)
    [] ty.tag = "Boolean" -> native_value("bool", s, ub)
    [] ty.tag = "Enum" ->
         IF ty.signed THEN to_value(s, Integer(ty.size), hp, ub)
                      ELSE to_value(s, Unsigned(ty.size), hp, ub)
    [] ty.tag = "Compound" ->
         IF Len(s) # ty.size THEN Panic("assert_eq: slice.len() == comp.size")
         ELSE record_of(compound_fields(s, ty.fields, hp, ub))
    [] ty.tag = "FixedArray" ->
         IF Len(s) # Size(ty.ty) * ty.len
           THEN Panic("assert_eq: slice.len() == ty.size() * len")
         ELSE list_of(decode_chunks(s, ty.ty, hp, ub))
    [] ty.tag \in {"FixedAscii", "FixedUnicode"} ->
         IF Len(s) # ty.len THEN Panic("assert_eq: slice.len() == len")
         ELSE Ok(StringV(from_utf8_lossy(s)))
    [] ty.tag = "VarLenArray" -> list_of(decode_chunks(hvl_bytes(s, hp), ty.ty, hp, ub))
    [] ty.tag \in {"VarLenAscii", "VarLenUnicode"} -> Ok(StringV(varlen_str(s, hp)))

(***************************************************************************)
(* The engine's view of a container. A dataset has a name (its path from   *)
(* the root, as Location::name gives it), a type, an element count, the    *)
(* native bytes H5Dread writes for that type (count * size of them) and    *)
(* the heap they point into. A group has a name, its datasets and its      *)
(* subgroups, each in the engine's enumeration order. fails is the set of  *)
(* engine calls <<what, name>> that fail.                                  *)
(***************************************************************************)
Dataset(n, ty, cnt, raw, hp) ==
  [name |-> n, dtype |-> ty, size |-> cnt, raw |-> raw, heap |-> hp]

Group(n, dss, gs) == [name |-> n, datasets |-> dss, groups |-> gs]

engine_fails(what, node, fails) == <<what, node.name>> \in fails

\* the error of an engine call on a node: what failed, and where
EngineError(what, node) == <<"hdf5", what, node.name>>

\* ReadRawBytes::read_raw_bytes: a buffer of len * item_size bytes, filled
\* by H5Dread
read_raw_bytes(ds, ty, fails) ==
  LET len == ds.size
      item_size == Size(ty)
  IN IF engine_fails("from_descriptor", ds, fails)
       THEN Err(EngineError("from_descriptor", ds))
     ELSE IF engine_fails("H5Dread", ds, fails) THEN Err(EngineError("H5Dread", ds))
     ELSE Ok([i \in 1..(len * item_size) |-> ds.raw[i]])

\* the produced count compared with the buffer's byte length, not with the
\* element count
checked_list_byte_len(vals, ds) ==
  IF vals.kind # "Ok" THEN vals
  ELSE IF Len(vals.val) # Len(ds.raw) THEN Panic("assert_eq: vals.len() == dataset.size()")
  ELSE Ok(ListV(vals.val))

\* assert_eq!(vals.len(), dataset.size()); Ok(Value::List { vals })
checked_list(vals, ds) ==
  IF vals.kind # "Ok" THEN vals
  ELSE IF Len(vals.val) # ds.size THEN Panic("assert_eq: vals.len() == dataset.size()")
  ELSE Ok(ListV(vals.val))

\* data?, chunked by the type's size and decoded
decode_data(data, ty, ds, ub) ==
  IF data.kind # "Ok" THEN data
  ELSE checked_list(decode_chunks(data.val, ty, ds.heap, ub), ds)

to_list(ds, fails, ub) ==
  IF engine_fails("dtype", ds, fails) THEN Err(EngineError("dtype", ds))
  ELSE IF engine_fails("to_descriptor", ds, fails)
    THEN Err(EngineError("to_descriptor", ds))
  ELSE decode_data(read_raw_bytes(ds, ds.dtype, fails), ds.dtype, ds, ub)

\* name.strip_prefix('/'): one leading separator is removed, if there is one
strip_name(name) ==
  IF Len(name) > 0 /\ Head(name) = "/" THEN Tail(name) ELSE name

RECURSIVE to_record(_, _, _)
RECURSIVE record_datasets(_, _, _)
RECURSIVE record_groups(_, _, _)

\* for ds in group.datasets()? { cols.push(..); vals.push(to_list(..)?) }
record_datasets(dss, fails, ub) ==
  IF Len(dss) = 0 THEN Ok([cols |-> <<>>, vals |-> <<>>])
  ELSE push(strip_name(Head(dss).name), to_list(Head(dss), fails, ub),
            record_datasets(Tail(dss), fails, ub))

\* for g in group.groups()? { cols.push(..); vals.push(to_record(..)?) }
record_groups(gs, fails, ub) ==
  IF Len(gs) = 0 THEN Ok([cols |-> <<>>, vals |-> <<>>])
  ELSE push(strip_name(Head(gs).name), to_record(Head(gs), fails, ub),
            record_groups(Tail(gs), fails, ub))

\* the subgroups' columns and values put before the datasets'
append_cols_groups_first(d, g) ==
  IF g.kind # "Ok" THEN g
  ELSE Ok([cols |-> g.val.cols \o d.val.cols, vals |-> g.val.vals \o d.val.vals])

\* the columns and values of the first loop, then those of the second
append_cols(d, g) ==
  IF g.kind # "Ok" THEN g
  ELSE Ok([cols |-> d.val.cols \o g.val.cols, vals |-> d.val.vals \o g.val.vals])

\* to_record with group.groups()? called before the datasets are decoded
then_groups_listed_first(d, group, fails, ub) ==
  IF engine_fails("groups", group, fails) THEN Err(EngineError("groups", group))
  ELSE IF d.kind # "Ok" THEN d
  ELSE append_cols(d, record_groups(group.groups, fails, ub))

\* the second loop of to_record, entered when the first one has ended: d is
\* the first loop's outcome
then_groups(d, group, fails, ub) ==
  IF d.kind # "Ok" THEN d
  ELSE IF engine_fails("groups", group, fails) THEN Err(EngineError("groups", group))
  ELSE append_cols(d, record_groups(group.groups, fails, ub))

to_record(group, fails, ub) ==
  IF engine_fails("datasets", group, fails) THEN Err(EngineError("datasets", group))
  ELSE record_of(then_groups(record_datasets(group.datasets, fails, ub), group, fails, ub))

\* a container image: the root group the engine finds in the bytes, and the
\* engine calls that fail on it
Image(root, fails) == [root |-> root, fails |-> fails]

\* FileImage::new(bytes)?, then to_record on the file's root group
from_hdf5_bytes(bytes, ub) ==
  IF engine_fails("H5LTopen_file_image", bytes.root, bytes.fails)
    THEN Err(EngineError("H5LTopen_file_image", bytes.root))
    ELSE to_record(bytes.root, bytes.fails, ub)

(***************************************************************************)
(* The command surfaces.                                                   *)
(***************************************************************************)
\* Display of an error
to_string(e) == <<"display">> \o e

\* LabeledError::new(msg) has no label text of its own
NoLabel == ""

LabeledError(label, msg) == [label |-> label, msg |-> msg]

Binary(bytes) == [tag |-> "Binary", val |-> bytes]

\* Value::get_type, as shown in a message
get_type(v) == v.tag

Empty == [shape |-> "Empty"]
PipelineValue(v) == [shape |-> "Value", value |-> v]
ListStream == [shape |-> "ListStream"]
\* a byte stream, known by what ByteStream::into_value makes of it
ByteStream(collected) == [shape |-> "ByteStream", collected |-> collected]

\* from_hdf5_bytes(..).map_err(|e| LabeledError::new(e.to_string()))?, then
\* Ok(PipelineData::Value(value, meta))
converted(r) ==
  IF r.kind = "Err" THEN Err(LabeledError(NoLabel, to_string(r.val)))
  ELSE IF r.kind = "Ok" THEN Ok(PipelineValue(r.val))
  ELSE r

\* the outcome of an arm, and whether the arm entered from_hdf5_bytes
Arm(o, c) == [out |-> o, called |-> c]

\* run of from_hdf5.rs
run(inp, ub) ==
  CASE inp.shape = "Empty" -> Arm(Ok(Empty), FALSE)
    [] inp.shape = "Value" ->
         IF inp.value.tag = "Binary"
           THEN Arm(converted(from_hdf5_bytes(inp.value.val, ub)), TRUE)
           ELSE Arm(Err(LabeledError(NoLabel,
                                     <<"requires binary input, got", get_type(inp.value)>>)),
                    FALSE)
    [] inp.shape = "ListStream" ->
         Arm(Err(LabeledError(NoLabel, <<"unsupported list stream">>)), FALSE)
    [] inp.shape = "ByteStream" ->
         IF inp.collected.kind = "Err"
           THEN Arm(Err(LabeledError(NoLabel, inp.collected.val)), FALSE)
         ELSE IF inp.collected.val.tag = "Binary"
           THEN Arm(converted(from_hdf5_bytes(inp.collected.val.val, ub)), TRUE)
         ELSE Arm(Panic("internal error: entered unreachable code"), FALSE)

\* from_hdf5_bytes(val, *span).map_err(|e| LabeledError { label: "HDF5 error", .. })
labeled(r) ==
  IF r.kind = "Err" THEN Err(LabeledError("HDF5 error", to_string(r.val))) ELSE r

\* FromHdf5::run of main.rs
plugin_run(name, inp, ub) ==
  IF name # "from hdf5" THEN Arm(Panic("assert_eq: name == from hdf5"), FALSE)
  ELSE IF inp.tag = "Binary" THEN Arm(labeled(from_hdf5_bytes(inp.val, ub)), TRUE)
  ELSE Arm(Err(LabeledError("Expected binary from pipeline",
                            <<"requires binary input, got", get_type(inp)>>)),
           FALSE)

(***************************************************************************)
(* The inputs the model draws.                                             *)
(***************************************************************************)
\* every slice of n bytes when n <= MaxFull; beyond, the slices whose first,
\* inner and last bytes are drawn
Slices(n) ==
  IF n <= MaxFull THEN [1..n -> Bytes]
  ELSE {[i \in 1..n |-> IF i = 1 THEN a ELSE IF i = n THEN c ELSE b] :
          a \in Bytes, b \in Bytes, c \in Bytes}

ScalarTypes ==
  {Integer(w) : w \in IntSizes} \cup {Unsigned(w) : w \in IntSizes}
    \cup {Float(w) : w \in FloatSizes} \cup {Boolean}
    \cup {Enum(w, sg) : w \in IntSizes, sg \in BOOLEAN}

StringTypes ==
  {FixedAscii(l) : l \in 1..MaxStrLen} \cup {FixedUnicode(l) : l \in 1..MaxStrLen}

ElemTypes == {Unsigned(1), Unsigned(2), Integer(2), Float(4)}

ArrayTypes == {FixedArray(e, l) : e \in ElemTypes, l \in 1..MaxArrayLen}

FieldTypes == {Unsigned(1), Unsigned(2)}

\* two-field compounds: the fields' types, the second field's name, the
\* padding between and after the fields, and whether the field declared
\* first lies second in memory
TwoFields(t1, t2, n2, gap, trail, swap) ==
  LET lo == IF swap THEN t2 ELSE t1
      hi == IF swap THEN t1 ELSE t2
      off_hi == Size(lo) + gap
      f1 == Field(<<"a">>, IF swap THEN off_hi ELSE 0, t1)
      f2 == Field(n2, IF swap THEN 0 ELSE off_hi, t2)
  IN Compound(off_hi + Size(hi) + trail, <<f1, f2>>)

\* most padding bytes between two fields, and after the last
MaxPad == 1

FieldNames == {<<"a">>, <<"b">>}

\* [("a", 0, Unsigned(4)), ("b", 4, Float(8))], 12 bytes
PairCompound ==
  Compound(12, <<Field(<<"a">>, 0, Unsigned(4)), Field(<<"b">>, 4, Float(8))>>)

\* a compound within a compound, and an array within a compound
NestedCompound ==
  Compound(4, <<Field(<<"p">>, 0, Compound(2, <<Field(<<"a">>, 0, Unsigned(1)),
                                                 Field(<<"b">>, 1, Unsigned(1))>>)),
                Field(<<"q">>, 2, FixedArray(Unsigned(1), 2))>>)

CompoundTypes ==
  {TwoFields(t1, t2, n2, gap, trail, swap) :
     t1 \in FieldTypes, t2 \in FieldTypes, n2 \in FieldNames,
     gap \in 0..MaxPad, trail \in 0..MaxPad, swap \in BOOLEAN}
    \cup {Compound(Size(t) + trail, <<Field(<<"a">>, 0, t)>>) :
            t \in FieldTypes, trail \in 0..MaxPad}
    \cup {PairCompound, NestedCompound}

FixedTypes == ScalarTypes \cup StringTypes \cup ArrayTypes \cup CompoundTypes

VarLenArrayTypes == {VarLenArray(e) : e \in ElemTypes}

VarLenStringTypes == {VarLenAscii, VarLenUnicode}

\* the texts a variable-length string holds: no NUL inside
Texts == UNION {[1..n -> {65, 255}] : n \in 0..MaxStrLen}

\* a = 7, b = 3.5 in the layout of PairCompound
PairExample == <<7, 0, 0, 0>> \o <<0, 0, 0, 0, 0, 0, 12, 64>>

Examples(ty) == IF ty = PairCompound THEN {PairExample} ELSE {}

\* what to_value is handed for a type: any window for a fixed-size type (of
\* the declared size, one byte short, one byte long), a well-formed
\* indirection record and its heap for a variable-length one
ValueInputs(ty) ==
  CASE ty.tag = "VarLenArray" ->
         UNION {{[slice |-> HvlRecord(n, 1), heap |-> <<payload>>] :
                   payload \in Slices(n * Size(ty.ty))} : n \in 0..MaxRun}
    [] ty.tag \in {"VarLenAscii", "VarLenUnicode"} ->
         {[slice |-> PtrRecord(1), heap |-> <<text \o <<0>>>>] : text \in Texts}
    [] OTHER ->
         {[slice |-> sl, heap |-> <<>>] :
            sl \in Slices(Size(ty) - 1) \cup Slices(Size(ty)) \cup Slices(Size(ty) + 1)
                     \cup Examples(ty)}

\* k copies of a record, one after the other
RECURSIVE Copies(_, _)
Copies(rec, k) == IF k = 0 THEN <<>> ELSE rec \o Copies(rec, k - 1)

\* what the engine holds for a dataset of cnt elements of a type: cnt *
\* size native bytes; for a variable-length type, cnt indirection records
ListInputs(ty, cnt) ==
  CASE ty.tag = "VarLenArray" ->
         UNION {{[slice |-> Copies(HvlRecord(n, 1), cnt), heap |-> <<payload>>] :
                   payload \in Slices(n * Size(ty.ty))} : n \in 0..MaxRun}
    [] ty.tag \in {"VarLenAscii", "VarLenUnicode"} ->
         {[slice |-> Copies(PtrRecord(1), cnt), heap |-> <<text \o <<0>>>>] : text \in Texts}
    [] OTHER -> {[slice |-> sl, heap |-> <<>>] : sl \in Slices(cnt * Size(ty))}

DTypes == FixedTypes \cup VarLenArrayTypes \cup VarLenStringTypes

\* the name the engine gives a child: its path from the root
PathOf(parent, leaf) ==
  IF parent = <<"/">> THEN parent \o leaf ELSE parent \o <<"/">> \o leaf

RootPath == <<"/">>

\* every ordering of every subset of a set
RECURSIVE Orderings(_)
Orderings(S) ==
  {<<>>} \cup UNION {{<<x>> \o rest : rest \in Orderings(S \ {x})} : x \in S}

\* the datasets of the model's containers, by the group that holds them
DsX(p) == Dataset(PathOf(p, <<"x">>), Unsigned(1), 3, <<10, 20, 30>>, <<>>)
DsY(p) == Dataset(PathOf(p, <<"y">>), Float(8), 1, <<31, 133, 235, 81, 184, 30, 9, 64>>, <<>>)
DsE(p) == Dataset(PathOf(p, <<"e">>), Unsigned(2), 0, <<>>, <<>>)
\* one variable-length run of one 16-bit element
DsV(p) == Dataset(PathOf(p, <<"v">>), VarLenArray(Unsigned(2)), 1, HvlRecord(1, 1), <<<<7, 0>>>>)

\* the hierarchies: the root holds some of x and e and some of the groups g
\* and h; g holds y and the group k or nothing, k holds x; h holds v or y
GroupK(p) == Group(PathOf(p, <<"k">>), <<DsX(PathOf(p, <<"k">>))>>, <<>>)

GroupsG(p) ==
  LET me == PathOf(p, <<"g">>)
  IN {Group(me, <<DsY(me)>>, gs) : gs \in {<<>>, <<GroupK(me)>>}}

GroupsH(p) ==
  LET me == PathOf(p, <<"h">>)
  IN {Group(me, <<d>>, <<>>) : d \in {DsV(me), DsY(me)}}

RootGroupSeqs ==
  {<<>>} \cup {<<g>> : g \in GroupsG(RootPath)} \cup {<<h>> : h \in GroupsH(RootPath)}
    \cup {<<g, h>> : g \in GroupsG(RootPath), h \in GroupsH(RootPath)}
    \cup {<<h, g>> : g \in GroupsG(RootPath), h \in GroupsH(RootPath)}

Roots ==
  {Group(RootPath, dss, gs) :
     dss \in Orderings({DsX(RootPath), DsE(RootPath)}), gs \in RootGroupSeqs}

RECURSIVE GroupsIn(_)
GroupsIn(g) == {g} \cup UNION {GroupsIn(g.groups[i]) : i \in 1..Len(g.groups)}

DatasetsIn(g) == UNION {{n.datasets[i] : i \in 1..Len(n.datasets)} : n \in GroupsIn(g)}

DatasetCalls == {"dtype", "to_descriptor", "from_descriptor", "H5Dread"}

GroupCalls == {"datasets", "groups"}

\* the engine calls a conversion of the container can make
EngineCalls(root) ==
  {<<"H5LTopen_file_image", root.name>>}
    \cup {<<w, d.name>> : w \in DatasetCalls, d \in DatasetsIn(root)}
    \cup {<<w, n.name>> : w \in GroupCalls, n \in GroupsIn(root)}

\* the sets of failing calls: none, one, or two
FailSets(S) == {{}} \cup {{a, b} : a \in S, b \in S}

Images == UNION {{Image(r, f) : f \in FailSets(EngineCalls(r))} : r \in Roots}

\* values that are not binary
OtherValues == {[tag |-> "String"], [tag |-> "Int"], [tag |-> "Nothing"], [tag |-> "List"]}

\* ByteStream::into_value: binary, a string (a stream typed as text), or the
\* error of reading the stream
Collected ==
  {Ok(Binary(img)) : img \in Images} \cup {Ok([tag |-> "String"]), Err(<<"io error">>)}

PipelineInputs ==
  {Empty, ListStream} \cup {PipelineValue(v) : v \in OtherValues}
    \cup {PipelineValue(Binary(img)) : img \in Images}
    \cup {ByteStream(c) : c \in Collected}

\* the commands the plugin registers, which are those the host calls
CommandNames == {"from hdf5"}

PluginInputs ==
  {[name |-> n, value |-> v] : n \in CommandNames, v \in OtherValues \cup {Binary(img) : img \in Images}}

(***************************************************************************)
(* The state machine: one call of one entry point, from its inputs to its  *)
(* outcome.                                                                *)
(***************************************************************************)
Pending == [kind |-> "Pending"]

NoInput == [shape |-> "None"]

NoType == [tag |-> "None"]

InitToValue ==
  /\ call = "to_value"
  /\ dtype \in DTypes
  /\ \E i \in ValueInputs(dtype) : slice = i.slice /\ heap = i.heap
  /\ count = 0
  /\ input = NoInput

InitToList ==
  /\ call = "to_list"
  /\ dtype \in DTypes
  /\ count \in 0..MaxCount
  /\ \E i \in ListInputs(dtype, count) : slice = i.slice /\ heap = i.heap
  /\ input = NoInput

InitRun ==
  /\ call = "run"
  /\ input \in PipelineInputs
  /\ dtype = NoType /\ slice = <<>> /\ heap = <<>> /\ count = 0

InitPluginRun ==
  /\ call = "plugin_run"
  /\ input \in PluginInputs
  /\ dtype = NoType /\ slice = <<>> /\ heap = <<>> /\ count = 0

Init ==
  /\ out = Pending
  /\ called = FALSE
  /\ (InitToValue \/ InitToList \/ InitRun \/ InitPluginRun)

\* the dataset a to_list call is about
TheDataset == Dataset(<<"/", "d">>, dtype, count, slice, heap)

\* the call returns (or unwinds) with outcome r.out
Returns(r) == out' = r.out /\ called' = r.called

ToValue ==
  /\ call = "to_value" /\ out = Pending
  /\ \E ub \in BOOLEAN : out' = to_value(slice, dtype, heap, ub)
  /\ UNCHANGED <<call, dtype, slice, heap, count, input, called>>

ToList ==
  /\ call = "to_list" /\ out = Pending
  /\ \E ub \in BOOLEAN : out' = to_list(TheDataset, {}, ub)
  /\ UNCHANGED <<call, dtype, slice, heap, count, input, called>>

Run ==
  /\ call = "run" /\ out = Pending
  /\ \E ub \in BOOLEAN : Returns(run(input, ub))
  /\ UNCHANGED <<call, dtype, slice, heap, count, input>>

PluginRun ==
  /\ call = "plugin_run" /\ out = Pending
  /\ \E ub \in BOOLEAN : Returns(plugin_run(input.name, input.value, ub))
  /\ UNCHANGED <<call, dtype, slice, heap, count, input>>

Next == ToValue \/ ToList \/ Run \/ PluginRun

Spec == Init /\ [][Next]_vars

(***************************************************************************)
(* Properties.                                                             *)
(***************************************************************************)
Returned == out.kind # "Pending"

\* the windows a slice of n elements of a type is made of, in order
Window(s, ty, i) == SubSeq(s, (i - 1) * Size(ty) + 1, i * Size(ty))

\* Are all outcomes of a sequence of outcomes values?
AllOk(rs) == \A i \in 1..Len(rs) : rs[i].kind = "Ok"

\* the first outcome of a sequence that is not a value
FirstFailure(rs) ==
  rs[CHOOSE i \in 1..Len(rs) : rs[i].kind # "Ok" /\ \A j \in 1..(i - 1) : rs[j].kind = "Ok"]

ValuesOf(rs) == [i \in 1..Len(rs) |-> rs[i].val]

\* C1: to_value, given a fixed-size type and a slice whose length is not the
\* type's size, fails with an error returned to its caller as Err (it does
\* not unwind) and produces no value.
C1_SizeMismatchIsErr ==
  (call = "to_value" /\ Returned /\ IsFixedSize(dtype) /\ Len(slice) # Size(dtype))
    => out.kind = "Err"

\* A 64-bit two's complement pattern is that of a number below zero.
Negative(p) == TopBit(p)

\* C10: for Unsigned(w) and a slice of w bytes, the integer to_value returns
\* is the unsigned number the bytes hold: it is not negative and its bits
\* are the bytes, zero-extended to 64.
C10_UnsignedIsNonNegative ==
  (call = "to_value" /\ Returned /\ dtype.tag = "Unsigned" /\ Len(slice) = dtype.size)
    => /\ out.kind = "Ok"
       /\ out.val.tag = "Int"
       /\ ~Negative(out.val.val)
       /\ out.val.val = ZeroExtend(slice)

\* the run an indirection record of the model refers to: its element count
\* and its payload
RunCount == LeValue(SubSeq(slice, 1, 8))
RunPayload == heap[LeValue(SubSeq(slice, 9, 16))]

\* the elements of the run, each decoded from its own window of the payload
RunElements(ub) ==
  [i \in 1..RunCount |-> to_value(Window(RunPayload, dtype.ty, i), dtype.ty, heap, ub)]

\* C7: for VarLenArray(T) and an indirection record of a run of n elements
\* of T, to_value returns the list of the n elements, the i-th decoded from
\* payload bytes [i*size(T), (i+1)*size(T)), in order.
C7_VarLenArrayDecodesRun ==
  (call = "to_value" /\ Returned /\ dtype.tag = "VarLenArray")
    => \E ub \in BOOLEAN : out = Ok(ListV(ValuesOf(RunElements(ub))))

\* Are the elements of a sequence pairwise distinct?
Distinct(q) == \A i \in 1..Len(q) : \A j \in 1..Len(q) : i # j => q[i] # q[j]

\* C8: a record to_value returns for a compound has pairwise distinct field
\* names (a compound with two fields of one name is refused, not decoded).
C8_RecordNamesDistinct ==
  (call = "to_value" /\ Returned /\ dtype.tag = "Compound" /\ out.kind = "Ok")
    => Distinct(out.val.cols)

\* the fields of the compound, each decoded from its own window
FieldOutcomes(ub) ==
  [i \in 1..Len(dtype.fields) |->
     to_value(SubSeq(slice, dtype.fields[i].offset + 1,
                     dtype.fields[i].offset + Size(dtype.fields[i].ty)),
              dtype.fields[i].ty, heap, ub)]

DeclaredNames == [i \in 1..Len(dtype.fields) |-> dtype.fields[i].name]

\* C6: for a compound and a slice of comp.size bytes, to_value returns a
\* record with one entry per declared field, in declaration order and under
\* the declared name, the i-th value being to_value of the i-th field's
\* window with the field's type (should a field not decode, the first such
\* field's outcome is the compound's); the outcome is thus a function of the
\* windows alone, and the bytes outside them do not affect it.
C6_CompoundIsFieldwise ==
  (call = "to_value" /\ Returned /\ dtype.tag = "Compound" /\ Len(slice) = dtype.size)
    => \E ub \in BOOLEAN :
         LET rs == FieldOutcomes(ub)
         IN IF AllOk(rs) THEN out = Ok(RecordV(DeclaredNames, ValuesOf(rs)))
            ELSE out = FirstFailure(rs)

\* a compound with padding between and after its fields, the field declared
\* first lying second in memory, decoded from a slice whose padding bytes
\* are not zero
C6_Witness ==
  /\ call = "to_value" /\ Returned /\ dtype.tag = "Compound" /\ Len(slice) = dtype.size
  /\ out.kind = "Ok" /\ out.val.tag = "Record"
  /\ Len(dtype.fields) = 2
  /\ dtype.fields[1].offset > Size(dtype.fields[2].ty)
  /\ dtype.fields[1].offset + Size(dtype.fields[1].ty) < dtype.size
  /\ slice[dtype.fields[1].offset] = 255 /\ slice[dtype.size] = 255
  /\ out.val.cols = <<<<"a">>, <<"b">>>>

\* the dataset's elements, each decoded from its own window of the buffer
ElementOutcomes(ub) ==
  [i \in 1..count |-> to_value(Window(slice, dtype, i), dtype, heap, ub)]

\* C9: for a dataset of n elements of type T (n = 0 included), to_list reads
\* a buffer of n * size(T) bytes and returns the list of exactly n values,
\* the i-th being to_value of bytes [i*size(T), (i+1)*size(T)) with T
\* (should an element not decode, the first such element's outcome is the
\* dataset's); the check of the produced count against n never fails.
C9_ListOfCountElements ==
  (call = "to_list" /\ Returned)
    => /\ Len(read_raw_bytes(TheDataset, dtype, {}).val) = count * Size(dtype)
       /\ out # Panic("assert_eq: vals.len() == dataset.size()")
       /\ \E ub \in BOOLEAN :
            LET rs == ElementOutcomes(ub)
            IN IF AllOk(rs) THEN out = Ok(ListV(ValuesOf(rs))) /\ Len(out.val.vals) = count
               ELSE out = FirstFailure(rs)

\* a dataset of two 16-bit elements that differ, decoded to two values
C9_Witness ==
  /\ call = "to_list" /\ Returned /\ count = 2 /\ dtype = Unsigned(2)
  /\ out.kind = "Ok" /\ Len(out.val.vals) = 2
  /\ out.val.vals[1] # out.val.vals[2]

(***************************************************************************)
(* Properties of a conversion.                                             *)
(***************************************************************************)
InputIsBinary ==
  \/ call = "run" /\ input.shape = "Value" /\ input.value.tag = "Binary"
  \/ /\ call = "run" /\ input.shape = "ByteStream"
     /\ input.collected.kind = "Ok" /\ input.collected.val.tag = "Binary"
  \/ call = "plugin_run" /\ input.value.tag = "Binary"

\* the container a conversion is about
TheImage ==
  IF call = "plugin_run" THEN input.value.val
  ELSE IF input.shape = "Value" THEN input.value.val
  ELSE input.collected.val.val

\* the value a conversion that returned Ok produced
Produced == IF call = "run" THEN out.val.value ELSE out.val

\* C2: run, given an input that is not binary (empty, a value of another
\* type, a list stream, a byte stream collected to another type), returns a
\* labeled error; it does not unwind, and it does not enter from_hdf5_bytes.
C2_NonBinaryIsLabeledError ==
  (call = "run" /\ Returned /\ ~InputIsBinary) => (out.kind = "Err" /\ ~called)

\* the steps of a conversion in walk order: a group's datasets before its
\* subgroups, depth first; per dataset the four engine calls, then the
\* decoding of its bytes
Step(what, node) == [what |-> what, node |-> node]

RECURSIVE Concat(_)
Concat(qs) == IF Len(qs) = 0 THEN <<>> ELSE Head(qs) \o Concat(Tail(qs))

DatasetWalk(ds) ==
  <<Step("dtype", ds), Step("to_descriptor", ds), Step("from_descriptor", ds),
    Step("H5Dread", ds), Step("decode", ds)>>

RECURSIVE Walk(_)
Walk(g) ==
  <<Step("datasets", g)>>
    \o Concat([i \in 1..Len(g.datasets) |-> DatasetWalk(g.datasets[i])])
    \o <<Step("groups", g)>>
    \o Concat([j \in 1..Len(g.groups) |-> Walk(g.groups[j])])

ConversionWalk(img) == <<Step("H5LTopen_file_image", img.root)>> \o Walk(img.root)

\* a step at which the conversion cannot go on: an engine call that fails,
\* or a dataset whose bytes do not decode
Stops(st, fails) ==
  IF st.what = "decode" THEN to_list(st.node, {}, TRUE).kind # "Ok"
  ELSE <<st.what, st.node.name>> \in fails

\* the first step of a walk that stops, if any: one record of a sequence of
\* at most one
RECURSIVE FirstStop(_, _)
FirstStop(walk, fails) ==
  IF Len(walk) = 0 THEN <<>>
  ELSE IF Stops(Head(walk), fails) THEN <<Head(walk)>>
  ELSE FirstStop(Tail(walk), fails)

\* the outcome a conversion has when stop is the first step that stops
StoppedAt(stop) ==
  IF Len(stop) = 0 THEN out.kind = "Ok"
  ELSE IF stop[1].what = "decode" THEN out.kind = "Panic"
  ELSE /\ out.kind = "Err"
       /\ out.val.msg = to_string(EngineError(stop[1].what, stop[1].node))
       /\ called

\* C3: a conversion stops at the first engine failure in walk order and
\* returns one labeled error with that failure's message, and no value;
\* with no failure on the way it returns a value.
C3_FirstFailureIsTheError ==
  (call \in {"run", "plugin_run"} /\ Returned /\ InputIsBinary)
    => StoppedAt(FirstStop(ConversionWalk(TheImage), TheImage.fails))

\* two failing calls: listing the subgroups of g, which comes after the
\* root's two datasets and g's own dataset have been decoded, and a call on
\* a dataset of h, which is walked after g; the error is the former's
C3_Witness ==
  /\ call = "run" /\ Returned /\ InputIsBinary
  /\ TheImage.fails = {<<"groups", <<"/", "g">>>>, <<"dtype", <<"/", "h", "/", "y">>>>}
  /\ Len(TheImage.root.datasets) = 2
  /\ Len(TheImage.root.groups) = 2
  /\ TheImage.root.groups[1].name = <<"/", "g">>
  /\ out = Err(LabeledError(NoLabel, <<"display", "hdf5", "groups", <<"/", "g">>>>))

\* the last component of a path
RECURSIVE Leaf(_)
Leaf(name) ==
  IF \A i \in 1..Len(name) : name[i] # "/" THEN name ELSE Leaf(Tail(name))

\* the children of a group, datasets first
Children(g) == g.datasets \o g.groups

RECURSIVE LeafNamed(_, _)
LeafNamed(g, rec) ==
  /\ Len(rec.cols) = Len(Children(g))
  /\ \A i \in 1..Len(Children(g)) : rec.cols[i] = Leaf(Children(g)[i].name)
  /\ \A j \in 1..Len(g.groups) : LeafNamed(g.groups[j], rec.vals[Len(g.datasets) + j])

\* C4: in the record of a group, at any depth, the field of a child is named
\* by the child's leaf name, which holds no path separator.
C4_FieldsAreLeafNames ==
  (call \in {"run", "plugin_run"} /\ Returned /\ InputIsBinary /\ out.kind = "Ok")
    => LeafNamed(TheImage.root, Produced)

\* Is the sequence a (non-empty) end of the other?
IsEndOf(col, name) ==
  /\ 0 < Len(col) /\ Len(col) <= Len(name)
  /\ SubSeq(name, Len(name) - Len(col) + 1, Len(name)) = col

RECURSIVE Follows(_, _)
Follows(g, rec) ==
  /\ rec.tag = "Record"
  /\ Len(rec.cols) = Len(g.datasets) + Len(g.groups)
  /\ Len(rec.vals) = Len(rec.cols)
  /\ \A i \in 1..Len(g.datasets) :
       /\ IsEndOf(rec.cols[i], g.datasets[i].name)
       /\ rec.vals[i] = to_list(g.datasets[i], {}, TRUE).val
  /\ \A j \in 1..Len(g.groups) :
       /\ IsEndOf(rec.cols[Len(g.datasets) + j], g.groups[j].name)
       /\ Follows(g.groups[j], rec.vals[Len(g.datasets) + j])

\* C5: the record of a group has one field per dataset, in the engine's
\* order, then one field per subgroup, in the engine's order: no child is
\* left out or taken twice, and the i-th value is the i-th child's.
C5_DatasetsThenGroups ==
  (call \in {"run", "plugin_run"} /\ Returned /\ InputIsBinary /\ out.kind = "Ok")
    => Follows(TheImage.root, Produced)

\* a root of two datasets, e before x, and two subgroups, h before g
C5_Witness ==
  /\ call = "run" /\ Returned /\ InputIsBinary /\ out.kind = "Ok"
  /\ Produced.cols = <<<<"e">>, <<"x">>, <<"h">>, <<"g">>>>
  /\ Len(TheImage.root.groups[2].groups) = 1

====
